---- MODULE Spec2Model ----
(***************************************************************************)
(* PayTransaction workflow of go-lambda-pulumi: the service method        *)
(* PatientService.PayTransaction, the repository calls it makes           *)
(* (GetPatient, CreateTransaction) and the wall clock it reads.            *)
(*                                                                         *)
(* Strings that the code inspects character by character (the date of     *)
(* birth) are sequences of one-character strings.  Time is kept in whole  *)
(* hours; a pointer is a set with at most one element (nil is {}).        *)
(***************************************************************************)
EXTENDS Integers, Sequences, FiniteSets, TLC

(***************************************************************************)
(* Bounds of the model.                                                    *)
(***************************************************************************)
MaxCalls == 2
MaxTicks == 2

(***************************************************************************)
(* Program constants.                                                      *)
(***************************************************************************)
TransactionStatusSuccess == "success"
TransactionStatusFailed == "failed"

NoError == "<nil>"
ErrPatientNotFound == "patient not found"
ErrTransactionNotCreated == "transaction not created"
ErrDateOfBirthFormat == "date of birth format must be DD-MM-YYYY"
ErrRandReader == "crypto/rand: read failed"

RecordTypeNew == "NEW"
MinAge == 18
HoursPerDay == 24
DaysPerYear == 365
RandMax == 2

\* time.Duration is an int64 count of nanoseconds; in whole hours its
\* largest value is 2562047 (9223372036854775807 ns = 2562047h47m16.8s).
MaxDurationHours == 2562047

\* json.RawMessage values, as the JSON object they encode.
NoAPIResponse == [key |-> "", value |-> ""]
Under18Response == [key |-> "error", value |-> "Patient must be more than 18 years old"]
RecordTypeResponse == [key |-> "error", value |-> "Record type must be NEW"]
dummyFailedBody == [key |-> "error", value |-> "Transaction failed"]
dummySuccessBody == [key |-> "message", value |-> "Transaction success"]

(***************************************************************************)
(* time.Parse("02-01-2006", value)                                         *)
(***************************************************************************)
Digits == {"0", "1", "2", "3", "4", "5", "6", "7", "8", "9"}

DigitVal(c) ==
  CASE c = "0" -> 0 [] c = "1" -> 1 [] c = "2" -> 2 [] c = "3" -> 3
    [] c = "4" -> 4 [] c = "5" -> 5 [] c = "6" -> 6 [] c = "7" -> 7
    [] c = "8" -> 8 [] c = "9" -> 9

\* isDigit(s, i) of package time, with i counted from 1.
isDigit(s, i) == i <= Len(s) /\ s[i] \in Digits

Rest(s, n) == SubSeq(s, n + 1, Len(s))

\* getnum(s, fixed = true): exactly two leading digits.
getnum(s) ==
  IF isDigit(s, 1) /\ isDigit(s, 2)
    THEN [ok |-> TRUE, n |-> DigitVal(s[1]) * 10 + DigitVal(s[2]), rest |-> Rest(s, 2)]
    ELSE [ok |-> FALSE, n |-> 0, rest |-> s]

\* skip(value, "-"): the literal separator of the layout.
skip(s) ==
  IF Len(s) >= 1 /\ s[1] = "-"
    THEN [ok |-> TRUE, rest |-> Rest(s, 1)]
    ELSE [ok |-> FALSE, rest |-> s]

\* stdLongYear: four characters, all digits.
getyear(s) ==
  IF Len(s) >= 4 /\ \A i \in 1..4 : isDigit(s, i)
    THEN [ok |-> TRUE,
          n |-> DigitVal(s[1]) * 1000 + DigitVal(s[2]) * 100
                + DigitVal(s[3]) * 10 + DigitVal(s[4]),
          rest |-> Rest(s, 4)]
    ELSE [ok |-> FALSE, n |-> 0, rest |-> s]

isLeap(year) == year % 4 = 0 /\ (year % 100 # 0 \/ year % 400 = 0)

daysIn(month, year) ==
  IF month = 2 THEN (IF isLeap(year) THEN 29 ELSE 28)
  ELSE IF month \in {4, 6, 9, 11} THEN 30 ELSE 31

ParseFailed == [ok |-> FALSE, year |-> 0, month |-> 0, day |-> 0]

\* A parser that checks the shape of the string and the month, but not the
\* day against the length of the month.
TimeParseNoDayCheck(value) ==
  LET d  == getnum(value)
      s1 == skip(Rest(value, 2))
      m  == getnum(Rest(value, 3))
      s2 == skip(Rest(value, 5))
      y  == getyear(Rest(value, 6))
  IN  IF ~d.ok \/ ~s1.ok \/ ~m.ok THEN ParseFailed
      ELSE IF m.n <= 0 \/ 12 < m.n THEN ParseFailed
      ELSE IF ~s2.ok \/ ~y.ok THEN ParseFailed
      ELSE [ok |-> TRUE, year |-> y.n, month |-> m.n, day |-> d.n]

\* The layout with month and day exchanged ("01-02-2006").
TimeParseMonthFirst(value) ==
  LET m  == getnum(value)
      s1 == skip(Rest(value, 2))
      d  == getnum(Rest(value, 3))
      s2 == skip(Rest(value, 5))
      y  == getyear(Rest(value, 6))
  IN  IF ~m.ok \/ ~s1.ok \/ ~d.ok \/ ~s2.ok \/ ~y.ok THEN ParseFailed
      ELSE IF m.n <= 0 \/ 12 < m.n THEN ParseFailed
      ELSE IF Len(y.rest) > 0 THEN ParseFailed
      ELSE IF d.n < 1 \/ d.n > daysIn(m.n, y.n) THEN ParseFailed
      ELSE [ok |-> TRUE, year |-> y.n, month |-> m.n, day |-> d.n]

\* Each element of the layout consumes a fixed number of characters, so the
\* remainder handed to an element is the value less the characters consumed
\* by the elements before it; an element is consulted only when those
\* before it succeeded.
TimeParse(value) ==
  LET d  == getnum(value)
      s1 == skip(Rest(value, 2))
      m  == getnum(Rest(value, 3))
      s2 == skip(Rest(value, 5))
      y  == getyear(Rest(value, 6))
  IN  IF ~d.ok THEN ParseFailed
      ELSE IF ~s1.ok THEN ParseFailed
      ELSE IF ~m.ok THEN ParseFailed
      ELSE IF m.n <= 0 \/ 12 < m.n THEN ParseFailed
      ELSE IF ~s2.ok THEN ParseFailed
      ELSE IF ~y.ok THEN ParseFailed
      ELSE IF Len(y.rest) > 0 THEN ParseFailed
      ELSE IF d.n < 1 \/ d.n > daysIn(m.n, y.n) THEN ParseFailed
      ELSE [ok |-> TRUE, year |-> y.n, month |-> m.n, day |-> d.n]

\* Days from 1970-01-01 to the given date of the proleptic Gregorian
\* calendar (a day past the end of the month runs into the next month).
unixDays(year, month, day) ==
  LET y   == IF month <= 2 THEN year - 1 ELSE year
      era == y \div 400
      yoe == y - era * 400
      mp  == (month + 9) % 12
      doy == (153 * mp + 2) \div 5 + day - 1
      doe == yoe * 365 + yoe \div 4 - yoe \div 100 + doy
  IN  era * 146097 + doe - 719468

\* Hours from the epoch to midnight UTC of a parsed date.
unixHours(year, month, day, hour) == unixDays(year, month, day) * HoursPerDay + hour

(***************************************************************************)
(* Inputs.                                                                 *)
(***************************************************************************)
Procs == {1, 2}

PatientRows == {[id |-> "p1", name |-> "John Doe"]}

DobAdult      == <<"1","5","-","0","3","-","1","9","9","0">>
DobExactly18  == <<"0","1","-","1","1","-","2","0","0","8">>
DobAlmost18   == <<"0","2","-","1","1","-","2","0","0","8">>
DobThreshold  == <<"0","6","-","1","1","-","2","0","0","8">>
DobSeventeen  == <<"0","1","-","0","5","-","2","0","0","9">>
DobTen        == <<"0","1","-","1","1","-","2","0","1","6">>
DobFuture     == <<"2","5","-","1","2","-","2","0","3","0">>
DobOld        == <<"0","1","-","0","1","-","1","6","0","0">>
DobISO        == <<"1","9","9","0","-","0","3","-","1","5">>
DobBadDay     == <<"3","1","-","0","2","-","2","0","0","0">>
DobTrailing   == <<"1","5","-","0","3","-","1","9","9","0","Z">>
DobEmpty      == << >>

ValidDobs == {DobAdult, DobExactly18, DobAlmost18, DobThreshold, DobSeventeen,
              DobTen, DobFuture, DobOld}
InvalidDobs == {DobISO, DobBadDay, DobTrailing, DobEmpty}
OtherRecordTypes == {"new", "", "OLD", "EXISTING"}

Request(id, dob, rt) == [patient_id |-> id, date_of_birth |-> dob, record_type |-> rt]

Requests ==
  {Request("p1", dob, RecordTypeNew) : dob \in ValidDobs \cup InvalidDobs}
  \cup {Request("p1", dob, rt) : dob \in {DobAdult, DobTen, DobISO}, rt \in OtherRecordTypes}
  \cup {Request("p2", dob, rt) : dob \in {DobAdult, DobISO}, rt \in {RecordTypeNew, "OLD"}}

\* The wall clock at the start: 2026-11-01 00:00 UTC.
StartTime == [year |-> 2026, month |-> 11, day |-> 1, hour |-> 0]
ZeroTime == [year |-> 1, month |-> 1, day |-> 1, hour |-> 0]
TickSteps == {12}

(***************************************************************************)
(* State.                                                                  *)
(***************************************************************************)
VARIABLES
  patients,      \* rows of the patients table
  transactions,  \* rows of the transactions table
  now,           \* the wall clock
  ticks,         \* clock steps taken
  calls,         \* invocations of PayTransaction started
  nextID,        \* supply of fresh identifiers for uuid.New()
  pc,            \* position of each invocation
  data,          \* the request of each invocation
  patient,       \* result of the lookup (pointer)
  transaction,   \* the Transaction value under construction
  clock,         \* the time read by time.Since
  since,         \* time.Since(patientDateOfBirth) in hours
  isSuccess,     \* result of rand.Int
  createErr,     \* error returned by CreateTransaction
  rs,            \* returned *Transaction (pointer)
  err,           \* returned error
  reads,         \* GetPatient calls made by the invocation
  writes,        \* CreateTransaction calls made by the invocation
  hpc,           \* position of each HTTP handler
  reqBody,       \* the request body the handler received
  response,      \* the HTTP response the handler wrote
  applied        \* the last call of a helper function: its argument and result

httpVars == <<hpc, reqBody, response>>

vars == <<patients, transactions, now, ticks, calls, nextID, pc, data, patient,
          transaction, clock, since, isSuccess, createErr, rs, err, reads, writes,
          hpc, reqBody, response, applied>>

ZeroRequest == Request("", << >>, "")
ZeroTransaction ==
  [id |-> 0, patient_id |-> "", status |-> "", api_response |-> NoAPIResponse,
   record_type |-> "", date_of_birth |-> << >>]
NoRand == [n |-> 0, err |-> NoError]
NoBody == [kind |-> "none", patient_id |-> {}, date_of_birth |-> {}, record_type |-> {}]
NoResponse == [code |-> 0, error |-> {}, errors |-> {}, transaction |-> {}]
NotApplied ==
  [fn |-> "", statusCode |-> 0,
   e |-> [class |-> "nil", msg |-> NoError, fields |-> << >>],
   fe |-> [field |-> << >>, tag |-> "", param |-> ""],
   dateStr |-> << >>, response |-> NoResponse, message |-> "", valid |-> FALSE]

Init ==
  /\ patients = PatientRows
  /\ transactions = {}
  /\ now = StartTime
  /\ ticks = 0
  /\ calls = 0
  /\ nextID = 1
  /\ pc = [p \in Procs |-> "idle"]
  /\ data = [p \in Procs |-> ZeroRequest]
  /\ patient = [p \in Procs |-> {}]
  /\ transaction = [p \in Procs |-> ZeroTransaction]
  /\ clock = [p \in Procs |-> ZeroTime]
  /\ since = [p \in Procs |-> 0]
  /\ isSuccess = [p \in Procs |-> NoRand]
  /\ createErr = [p \in Procs |-> NoError]
  /\ rs = [p \in Procs |-> {}]
  /\ err = [p \in Procs |-> NoError]
  /\ reads = [p \in Procs |-> 0]
  /\ writes = [p \in Procs |-> 0]
  /\ hpc = [p \in Procs |-> "idle"]
  /\ reqBody = [p \in Procs |-> NoBody]
  /\ response = [p \in Procs |-> NoResponse]
  /\ applied = NotApplied

(***************************************************************************)
(* The wall clock.                                                         *)
(***************************************************************************)
NextDay(t) ==
  IF t.day < daysIn(t.month, t.year) THEN [t EXCEPT !.day = t.day + 1]
  ELSE IF t.month < 12 THEN [t EXCEPT !.month = t.month + 1, !.day = 1]
  ELSE [t EXCEPT !.year = t.year + 1, !.month = 1, !.day = 1]

AddHours(t, h) ==
  IF t.hour + h < HoursPerDay THEN [t EXCEPT !.hour = t.hour + h]
  ELSE [NextDay(t) EXCEPT !.hour = t.hour + h - HoursPerDay]

Tick ==
  /\ ticks < MaxTicks
  /\ \E h \in TickSteps : now' = AddHours(now, h)
  /\ ticks' = ticks + 1
  /\ UNCHANGED <<patients, transactions, calls, nextID, pc, data, patient,
                 transaction, clock, since, isSuccess, createErr, rs, err,
                 reads, writes>>
  /\ UNCHANGED httpVars
  /\ UNCHANGED applied

\* A subtraction that wraps around instead of saturating.
SaturateWraps(h) ==
  IF h > MaxDurationHours THEN h - 2 * MaxDurationHours - 1
  ELSE IF h < 0 - MaxDurationHours THEN h + 2 * MaxDurationHours + 1
  ELSE h

\* Time.Sub saturates at the largest and smallest Duration.
Saturate(h) ==
  IF h > MaxDurationHours THEN MaxDurationHours
  ELSE IF h < 0 - MaxDurationHours THEN 0 - MaxDurationHours
  ELSE h

\* time.Since(patientDateOfBirth), read at clock t, in hours.
TimeSince(t, dob) ==
  Saturate(unixHours(t.year, t.month, t.day, t.hour)
           - unixHours(dob.year, dob.month, dob.day, 0))

\* patientAge < 18, with patientAge = hours / 24 / 365.
IsUnder18NonNegative(hours) ==
  0 <= hours /\ hours < MinAge * HoursPerDay * DaysPerYear

IsUnder17(hours) == hours < (MinAge - 1) * HoursPerDay * DaysPerYear

IsUnder18LeapYear(hours) == hours < MinAge * HoursPerDay * (DaysPerYear + 1)

IsUnder18(hours) == hours < MinAge * HoursPerDay * DaysPerYear

(***************************************************************************)
(* Repository.                                                             *)
(***************************************************************************)
\* db.First(&patient, "id = ?", id): the rows the query yields.
QueryPatientAny(id) == patients

QueryPatient(id) == {row \in patients : row.id = id}

RepoGetPatientEmptyRow(id) ==
  LET rows == QueryPatient(id)
  IN  IF Cardinality(rows) = 0
        THEN [patient |-> {[id |-> "", name |-> ""]}, err |-> NoError]
        ELSE [patient |-> {CHOOSE row \in rows : TRUE}, err |-> NoError]

RepoGetPatient(id) ==
  LET rows == QueryPatient(id)
  IN  IF Cardinality(rows) = 0
        THEN [patient |-> {}, err |-> ErrPatientNotFound]
        ELSE [patient |-> {CHOOSE row \in rows : TRUE}, err |-> NoError]

\* The transactions table after db.Create(&transaction).
DbCreateUpsert(table, t, rowsAffected) ==
  IF rowsAffected = 0 THEN table
  ELSE {r \in table : r.patient_id # t.patient_id} \cup {t}

DbCreate(table, t, rowsAffected) ==
  IF rowsAffected = 0 THEN table ELSE table \cup {t}

\* db.Create(&transaction) either inserts the row or affects no row.
RowsAffected == {0, 1}

RepoCreateTransactionZeroValue(t, rowsAffected) ==
  IF rowsAffected = 0
    THEN [rs |-> {}, err |-> ErrTransactionNotCreated]
    ELSE [rs |-> {ZeroTransaction}, err |-> NoError]

RepoCreateTransaction(t, rowsAffected) ==
  IF rowsAffected = 0
    THEN [rs |-> {}, err |-> ErrTransactionNotCreated]
    ELSE [rs |-> {t}, err |-> NoError]

(***************************************************************************)
(* PatientService.PayTransaction, one invocation per element of Procs.    *)
(***************************************************************************)
\* One Lambda instance (lambda.Start(Handler)) serves one event at a time:
\* Call starts an invocation when none is running.  Invocations that
\* overlap, on several instances sharing the database, are CallConcurrent.
InFlight == Cardinality({p \in Procs : pc[p] # "idle"})

Call(p) ==
  /\ pc[p] = "idle"
  /\ calls < MaxCalls
  /\ InFlight = 0
  /\ \E req \in Requests : data' = [data EXCEPT ![p] = req]
  /\ pc' = [pc EXCEPT ![p] = "GetPatient"]
  /\ calls' = calls + 1
  /\ UNCHANGED <<patients, transactions, now, ticks, nextID, patient,
                 transaction, clock, since, isSuccess, createErr, rs, err,
                 reads, writes>>
  /\ UNCHANGED httpVars
  /\ UNCHANGED applied

GetPatient(p) ==
  /\ pc[p] = "GetPatient"
  /\ LET r == RepoGetPatient(data[p].patient_id)
     IN  /\ reads' = [reads EXCEPT ![p] = @ + 1]
         /\ patient' = [patient EXCEPT ![p] = r.patient]
         /\ IF r.err # NoError
              THEN /\ err' = [err EXCEPT ![p] = r.err]
                   /\ pc' = [pc EXCEPT ![p] = "done"]
              ELSE /\ err' = err
                   /\ pc' = [pc EXCEPT ![p] = "Validate"]
  /\ UNCHANGED <<patients, transactions, now, ticks, calls, nextID, data,
                 transaction, clock, since, isSuccess, createErr, rs, writes>>
  /\ UNCHANGED httpVars
  /\ UNCHANGED applied

\* uuid.New(): the n-th identifier drawn is unlike every other one.
uuidNewFixed(n) == 1

uuidNew(n) == n

NewTransactionNoRecordType(id, req) ==
  [id |-> id, patient_id |-> req.patient_id, status |-> "",
   api_response |-> NoAPIResponse, record_type |-> "",
   date_of_birth |-> req.date_of_birth]

NewTransaction(id, req) ==
  [id |-> id, patient_id |-> req.patient_id, status |-> "",
   api_response |-> NoAPIResponse, record_type |-> req.record_type,
   date_of_birth |-> req.date_of_birth]

WithOutcomeBodyOnly(t, status, body) == [t EXCEPT !.api_response = body]

WithOutcome(t, status, body) == [t EXCEPT !.status = status, !.api_response = body]

\* data.RecordType != "NEW" is false: the record type is accepted.
AcceptsRecordTypeAnyCase(rt) == rt \in {"NEW", "new"}

AcceptsRecordType(rt) == rt = RecordTypeNew

\* Lines 65-85: the age gate, then the record-type gate.
GateRecordTypeFirst(hours, rt) ==
  IF ~AcceptsRecordType(rt) THEN "recordtype"
  ELSE IF IsUnder18(hours) THEN "under18"
  ELSE "pass"

\* An age gate whose threshold depends on the record type.
GateLenientForNew(hours, rt) ==
  IF (IF AcceptsRecordType(rt) THEN IsUnder17(hours) ELSE IsUnder18(hours)) THEN "under18"
  ELSE IF ~AcceptsRecordType(rt) THEN "recordtype"
  ELSE "pass"

Gate(hours, rt) ==
  IF IsUnder18(hours) THEN "under18"
  ELSE IF ~AcceptsRecordType(rt) THEN "recordtype"
  ELSE "pass"

\* Lines 50-85: build the Transaction, parse the date, the two gates.
Validate(p) ==
  /\ pc[p] = "Validate"
  /\ nextID' = nextID + 1
  /\ \E t \in {NewTransaction(uuidNew(nextID), data[p])},
        patientDateOfBirth \in {TimeParse(data[p].date_of_birth)} :
     \E elapsed \in {IF patientDateOfBirth.ok THEN TimeSince(now, patientDateOfBirth)
                      ELSE 0} :
         IF ~patientDateOfBirth.ok
           THEN /\ err' = [err EXCEPT ![p] = ErrDateOfBirthFormat]
                /\ pc' = [pc EXCEPT ![p] = "done"]
                /\ transaction' = [transaction EXCEPT ![p] = t]
                /\ UNCHANGED <<clock, since>>
           ELSE /\ clock' = [clock EXCEPT ![p] = now]
                /\ since' = [since EXCEPT ![p] = elapsed]
                /\ err' = err
                /\ IF Gate(elapsed, data[p].record_type) = "under18"
                     THEN /\ transaction' = [transaction EXCEPT ![p] =
                                WithOutcome(t, TransactionStatusFailed, Under18Response)]
                          /\ pc' = [pc EXCEPT ![p] = "CreateTransaction"]
                     ELSE IF Gate(elapsed, data[p].record_type) = "recordtype"
                       THEN /\ transaction' = [transaction EXCEPT ![p] =
                                  WithOutcome(t, TransactionStatusFailed, RecordTypeResponse)]
                            /\ pc' = [pc EXCEPT ![p] = "CreateTransaction"]
                       ELSE /\ transaction' = [transaction EXCEPT ![p] = t]
                            /\ pc' = [pc EXCEPT ![p] = "ExternalCall"]
  /\ UNCHANGED <<patients, transactions, now, ticks, calls, data, patient,
                 isSuccess, createErr, rs, reads, writes>>
  /\ UNCHANGED httpVars
  /\ UNCHANGED applied

\* rand.Int(rand.Reader, max): a number below max, or the reader's error.
RandIntDegenerate(max) == {[n |-> 1, err |-> NoError]}

RandInt(max) ==
  {[n |-> k, err |-> NoError] : k \in 0..(max - 1)}
  \cup {[n |-> 0, err |-> ErrRandReader]}

OutcomeOfInverted(t, n) ==
  IF n = 0
    THEN WithOutcome(t, TransactionStatusSuccess, dummySuccessBody)
    ELSE WithOutcome(t, TransactionStatusFailed, dummyFailedBody)

\* Lines 96-131: the status and body for the outcome of the simulated call.
OutcomeOf(t, n) ==
  IF n = 0
    THEN WithOutcome(t, TransactionStatusFailed, dummyFailedBody)
    ELSE WithOutcome(t, TransactionStatusSuccess, dummySuccessBody)

\* Lines 89-131: the simulated external call.
ExternalCall(p) ==
  /\ pc[p] = "ExternalCall"
  /\ \E r \in RandInt(RandMax) :
       /\ isSuccess' = [isSuccess EXCEPT ![p] = r]
       /\ IF r.err # NoError
            THEN /\ err' = [err EXCEPT ![p] = r.err]
                 /\ pc' = [pc EXCEPT ![p] = "done"]
                 /\ UNCHANGED transaction
            ELSE /\ transaction' = [transaction EXCEPT ![p] = OutcomeOf(@, r.n)]
                 /\ pc' = [pc EXCEPT ![p] = "CreateTransaction"]
                 /\ UNCHANGED err
  /\ UNCHANGED <<patients, transactions, now, ticks, calls, nextID, data,
                 patient, clock, since, createErr, rs, reads, writes>>
  /\ UNCHANGED httpVars
  /\ UNCHANGED applied

ReturnOfCreateSwallowsError(r) == [rs |-> r.rs, err |-> NoError]

\* What PayTransaction returns for the result of transactionRepo.CreateTransaction.
ReturnOfCreate(r) ==
  IF r.err # NoError THEN [rs |-> {}, err |-> r.err] ELSE [rs |-> r.rs, err |-> NoError]

AfterCreateRetry(r) == IF r.err # NoError THEN "CreateTransaction" ELSE "done"

\* Where the invocation goes after transactionRepo.CreateTransaction.
AfterCreate(r) == "done"

\* The single persistence call of each branch, and the return that follows.
CreateTransaction(p) ==
  /\ pc[p] = "CreateTransaction"
  /\ \E n \in RowsAffected :
       LET r == RepoCreateTransaction(transaction[p], n)
           ret == ReturnOfCreate(r)
       IN  /\ transactions' = DbCreate(transactions, transaction[p], n)
           /\ createErr' = [createErr EXCEPT ![p] = r.err]
           /\ rs' = [rs EXCEPT ![p] = ret.rs]
           /\ err' = [err EXCEPT ![p] = ret.err]
           /\ pc' = [pc EXCEPT ![p] = AfterCreate(r)]
  /\ writes' = [writes EXCEPT ![p] = @ + 1]
  /\ UNCHANGED <<patients, now, ticks, calls, nextID, data, patient,
                 transaction, clock, since, isSuccess, reads>>
  /\ UNCHANGED httpVars
  /\ UNCHANGED applied

\* The caller takes the result; the invocation's frame is gone.
Return(p) ==
  /\ pc[p] = "done"
  /\ pc' = [pc EXCEPT ![p] = "idle"]
  /\ data' = [data EXCEPT ![p] = ZeroRequest]
  /\ patient' = [patient EXCEPT ![p] = {}]
  /\ transaction' = [transaction EXCEPT ![p] = ZeroTransaction]
  /\ clock' = [clock EXCEPT ![p] = ZeroTime]
  /\ since' = [since EXCEPT ![p] = 0]
  /\ isSuccess' = [isSuccess EXCEPT ![p] = NoRand]
  /\ createErr' = [createErr EXCEPT ![p] = NoError]
  /\ rs' = [rs EXCEPT ![p] = {}]
  /\ err' = [err EXCEPT ![p] = NoError]
  /\ reads' = [reads EXCEPT ![p] = 0]
  /\ writes' = [writes EXCEPT ![p] = 0]
  /\ UNCHANGED <<patients, transactions, now, ticks, calls, nextID>>
  /\ UNCHANGED httpVars
  /\ UNCHANGED applied

Next ==
  \/ Tick
  \/ \E p \in Procs : Call(p)
  \/ \E p \in Procs : GetPatient(p)
  \/ \E p \in Procs : Validate(p)
  \/ \E p \in Procs : ExternalCall(p)
  \/ \E p \in Procs : CreateTransaction(p)
  \/ \E p \in Procs : Return(p)

Spec == Init /\ [][Next]_vars

(***************************************************************************)
(* Invocations that overlap: the handler runs on one goroutine per        *)
(* request, so a second PayTransaction may start while the first is at    *)
(* any of its steps.  The steps that touch shared state are the two       *)
(* repository calls; each is one statement of the database.               *)
(***************************************************************************)
ConcurrentRequests ==
  {Request("p1", DobThreshold, rt) : rt \in {RecordTypeNew, "OLD"}}
  \cup {Request("p1", DobAdult, RecordTypeNew), Request("p1", DobISO, RecordTypeNew),
        Request("p2", DobAdult, RecordTypeNew)}

CallConcurrent(p) ==
  /\ pc[p] = "idle"
  /\ calls < MaxCalls
  /\ \E req \in ConcurrentRequests : data' = [data EXCEPT ![p] = req]
  /\ pc' = [pc EXCEPT ![p] = "GetPatient"]
  /\ calls' = calls + 1
  /\ UNCHANGED <<patients, transactions, now, ticks, nextID, patient,
                 transaction, clock, since, isSuccess, createErr, rs, err,
                 reads, writes>>
  /\ UNCHANGED httpVars
  /\ UNCHANGED applied

NextConcurrent ==
  \/ Tick
  \/ \E p \in Procs : CallConcurrent(p)
  \/ \E p \in Procs : GetPatient(p)
  \/ \E p \in Procs : Validate(p)
  \/ \E p \in Procs : ExternalCall(p)
  \/ \E p \in Procs : CreateTransaction(p)
  \/ \E p \in Procs : Return(p)

SpecConcurrent == Init /\ [][NextConcurrent]_vars

\* The statements of a started invocation are straight-line code and the
\* repository calls return: an invocation that can take a step takes it,
\* whatever the other invocations do.
FairSpecConcurrent ==
  /\ SpecConcurrent
  /\ \A p \in Procs :
       WF_vars(GetPatient(p) \/ Validate(p) \/ ExternalCall(p) \/ CreateTransaction(p))


(***************************************************************************)
(* The HTTP boundary: PatientHandler.PayTransaction behind the route       *)
(* POST /app/patients/pay-transaction.                                     *)
(***************************************************************************)
StatusOK == 200
StatusBadRequest == 400

\* Texts of patient identifiers as they appear in a body.
TextP1 ==
  <<"1","1","1","1","1","1","1","1","-","1","1","1",
    "1","-","4","1","1","1","-","8","1","1","1","-",
    "1","1","1","1","1","1","1","1","1","1","1","1">>
TextP2 ==
  <<"2","2","2","2","2","2","2","2","-","2","2","2",
    "2","-","4","2","2","2","-","8","2","2","2","-",
    "2","2","2","2","2","2","2","2","2","2","2","2">>
TextNil ==
  <<"0","0","0","0","0","0","0","0","-","0","0","0",
    "0","-","0","0","0","0","-","0","0","0","0","-",
    "0","0","0","0","0","0","0","0","0","0","0","0">>
TextBadHex ==
  <<"z","z","z","z","z","z","z","z","-","1","1","1",
    "1","-","4","1","1","1","-","8","1","1","1","-",
    "1","1","1","1","1","1","1","1","1","1","1","1">>
TextInvalid ==
  <<"i","n","v","a","l","i","d","-","u","u","i","d">>
TextEmpty == << >>

UUIDNil == ""
HexDigits == Digits \cup {"a", "b", "c", "d", "e", "f", "A", "B", "C", "D", "E", "F"}

\* The 16 bytes a well-formed text stands for, by name.
uuidBytes(text) ==
  CASE text = TextP1 -> "p1"
    [] text = TextP2 -> "p2"
    [] OTHER -> UUIDNil

\* uuid.UUID.UnmarshalText for texts of the canonical length; the inputs
\* have that length or one that ParseBytes refuses.
uuidParse(text) ==
  IF Len(text) # 36
    THEN [id |-> UUIDNil, err |-> "invalid UUID length: " \o ToString(Len(text))]
  ELSE IF text[9] # "-" \/ text[14] # "-" \/ text[19] # "-" \/ text[24] # "-"
    THEN [id |-> UUIDNil, err |-> "invalid UUID format"]
  ELSE IF \E i \in (1..36) \ {9, 14, 19, 24} : text[i] \notin HexDigits
    THEN [id |-> UUIDNil, err |-> "invalid UUID format"]
  ELSE [id |-> uuidBytes(text), err |-> NoError]

\* regexp ^\d{2}-\d{2}-\d{4}$
MatchDDMMYYYY(dateStr) ==
  /\ Len(dateStr) = 10
  /\ \A i \in {1, 2, 4, 5, 7, 8, 9, 10} : dateStr[i] \in Digits
  /\ dateStr[3] = "-" /\ dateStr[6] = "-"

ValidateDDMMYYYYRegexOnly(dateStr) == MatchDDMMYYYY(dateStr)

ValidateDDMMYYYY(dateStr) ==
  IF ~MatchDDMMYYYY(dateStr) THEN FALSE
  ELSE TimeParse(dateStr).ok

\* Names of the fields of PayTransactionRequest.
FieldPatientID == <<"P","a","t","i","e","n","t","I","D">>
FieldDateOfBirth == <<"D","a","t","e","O","f","B","i","r","t","h">>
FieldRecordType == <<"R","e","c","o","r","d","T","y","p","e">>

\* An error value: nil, a plain error with a message, or
\* validator.ValidationErrors with one entry per failing field.
NilError == [class |-> "nil", msg |-> NoError, fields |-> << >>]
PlainError(msg) == [class |-> "error", msg |-> msg, fields |-> << >>]
ValidationErrors(fields) == [class |-> "ValidationErrors", msg |-> NoError, fields |-> fields]
FieldError(field, tag) == [field |-> field, tag |-> tag, param |-> ""]

\* A body: empty, not JSON, or a JSON object in which each member is
\* present (a singleton) or absent (the empty set).
JSONBody(ids, dobs, rts) ==
  [kind |-> "json", patient_id |-> ids, date_of_birth |-> dobs, record_type |-> rts]
EmptyBody == [kind |-> "empty", patient_id |-> {}, date_of_birth |-> {}, record_type |-> {}]
InvalidJSONBody == [kind |-> "invalid", patient_id |-> {}, date_of_birth |-> {}, record_type |-> {}]

Bodies ==
  {EmptyBody, InvalidJSONBody}
  \cup {JSONBody({TextP1}, {dob}, {rt}) : dob \in {DobAdult, DobTen}, rt \in {RecordTypeNew, "OLD"}}
  \cup {JSONBody({TextP1}, {dob}, {RecordTypeNew}) : dob \in {DobFuture, DobISO, DobBadDay, DobTrailing, DobEmpty}}
  \cup {JSONBody({id}, {DobAdult}, {RecordTypeNew}) : id \in {TextP2, TextNil, TextBadHex, TextInvalid, TextEmpty}}
  \cup {JSONBody({}, {DobAdult}, {RecordTypeNew}),
        JSONBody({TextP1}, {}, {RecordTypeNew}),
        JSONBody({TextP1}, {DobAdult}, {}),
        JSONBody({TextP1}, {DobAdult}, {""}),
        JSONBody({TextEmpty}, {}, {}),
        JSONBody({TextInvalid}, {DobISO}, {}),
        JSONBody({}, {DobISO}, {}),
        JSONBody({}, {}, {})}

ErrEOF == "EOF"
ErrInvalidCharacter == "invalid character 'i' looking for beginning of object key string"

\* json.Decoder.Decode into a zero PayTransactionRequest: an absent member
\* leaves the zero value, the patient identifier goes through UnmarshalText
\* and its error is the error of the decoding.
decodeJSON(b) ==
  IF b.kind = "empty" THEN [data |-> ZeroRequest, err |-> ErrEOF]
  ELSE IF b.kind = "invalid" THEN [data |-> ZeroRequest, err |-> ErrInvalidCharacter]
  ELSE LET id  == IF b.patient_id = {} THEN [id |-> UUIDNil, err |-> NoError]
                  ELSE uuidParse(CHOOSE t \in b.patient_id : TRUE)
           dob == IF b.date_of_birth = {} THEN << >>
                  ELSE CHOOSE t \in b.date_of_birth : TRUE
           rt  == IF b.record_type = {} THEN ""
                  ELSE CHOOSE t \in b.record_type : TRUE
       IN  [data |-> Request(id.id, dob, rt), err |-> id.err]

\* validator.Struct over the binding tags of PayTransactionRequest.
validateStruct(d) ==
  (IF d.patient_id = UUIDNil THEN <<FieldError(FieldPatientID, "required")>> ELSE << >>)
  \o (IF d.date_of_birth = << >> THEN <<FieldError(FieldDateOfBirth, "required")>>
      ELSE IF ~ValidateDDMMYYYY(d.date_of_birth)
        THEN <<FieldError(FieldDateOfBirth, "ddmmyyyy")>>
      ELSE << >>)
  \o (IF d.record_type = "" THEN <<FieldError(FieldRecordType, "required")>> ELSE << >>)

ShouldBindJSONNoValidate(b) ==
  LET dec == decodeJSON(b)
  IN  IF dec.err # NoError THEN [data |-> dec.data, err |-> PlainError(dec.err)]
      ELSE [data |-> dec.data, err |-> NilError]

ShouldBindJSON(b) ==
  LET dec == decodeJSON(b)
  IN  IF dec.err # NoError THEN [data |-> dec.data, err |-> PlainError(dec.err)]
      ELSE IF validateStruct(dec.data) # << >>
        THEN [data |-> dec.data, err |-> ValidationErrors(validateStruct(dec.data))]
      ELSE [data |-> dec.data, err |-> NilError]

UpperCase == <<"A","B","C","D","E","F","G","H","I","J","K","L","M",
               "N","O","P","Q","R","S","T","U","V","W","X","Y","Z">>
LowerCase == <<"a","b","c","d","e","f","g","h","i","j","k","l","m",
               "n","o","p","q","r","s","t","u","v","w","x","y","z">>
isUpper(r) == \E i \in 1..Len(UpperCase) : UpperCase[i] = r
toLower(r) ==
  IF isUpper(r) THEN LowerCase[CHOOSE i \in 1..Len(UpperCase) : UpperCase[i] = r]
  ELSE r

RECURSIVE snakeRunes(_, _)
snakeRunes(field, i) ==
  IF i > Len(field) THEN << >>
  ELSE (IF i > 1 /\ isUpper(field[i]) THEN <<"_">> ELSE << >>)
       \o <<field[i]>> \o snakeRunes(field, i + 1)

formatFieldName(field) ==
  LET result == snakeRunes(field, 1)
  IN  [i \in 1..Len(result) |-> toLower(result[i])]

getErrorMsg(fe) ==
  CASE fe.tag = "required" -> "This field is required"
    [] fe.tag = "ddmmyyyy" -> "Date must be in DD-MM-YYYY format"
    [] fe.tag = "email" -> "Invalid email format"
    [] fe.tag = "min" -> "Minimum length is " \o fe.param
    [] fe.tag = "max" -> "Maximum length is " \o fe.param
    [] OTHER -> "Validation failed on " \o fe.tag

formatValidationErrors(e) ==
  IF e.class = "ValidationErrors"
    THEN [i \in 1..Len(e.fields) |->
            [field |-> formatFieldName(e.fields[i].field),
             message |-> getErrorMsg(e.fields[i])]]
    ELSE << >>

HandleErrorFixedStatus(statusCode, e) ==
  IF e.class = "ValidationErrors"
    THEN [code |-> StatusBadRequest, error |-> {},
          errors |-> {formatValidationErrors(e)}, transaction |-> {}]
    ELSE [code |-> StatusBadRequest, error |-> {e.msg}, errors |-> {},
          transaction |-> {}]

HandleErrorSingleMessage(statusCode, e) ==
  [code |-> statusCode,
   error |-> {IF e.class = "ValidationErrors" THEN "validation failed" ELSE e.msg},
   errors |-> {}, transaction |-> {}]

HandleError(statusCode, e) ==
  IF e.class = "ValidationErrors"
    THEN [code |-> statusCode, error |-> {}, errors |-> {formatValidationErrors(e)},
          transaction |-> {}]
    ELSE [code |-> statusCode, error |-> {e.msg}, errors |-> {}, transaction |-> {}]

\* Lines 28-34: the evaluator's error goes to HandleError, its Transaction
\* to ctx.JSON.
PayTransactionResponseErrorAs500(r, e) ==
  IF e # NoError THEN HandleError(500, PlainError(e))
  ELSE [code |-> StatusOK, error |-> {}, errors |-> {}, transaction |-> r]

PayTransactionResponseFailedAs400(r, e) ==
  IF e # NoError THEN HandleError(StatusBadRequest, PlainError(e))
  ELSE IF \E t \in r : t.status = TransactionStatusFailed
    THEN [code |-> StatusBadRequest, error |-> {}, errors |-> {}, transaction |-> r]
  ELSE [code |-> StatusOK, error |-> {}, errors |-> {}, transaction |-> r]

PayTransactionResponse(r, e) ==
  IF e # NoError THEN HandleError(StatusBadRequest, PlainError(e))
  ELSE [code |-> StatusOK, error |-> {}, errors |-> {}, transaction |-> r]

HandlersInFlight == Cardinality({p \in Procs : hpc[p] # "idle"})

\* Lines 21-28: bind the body; a binding error is answered at once, else
\* the evaluator is called with the bound request.
HandlerPayTransaction(p) ==
  /\ hpc[p] = "idle" /\ pc[p] = "idle"
  /\ calls < MaxCalls
  /\ HandlersInFlight = 0
  /\ \E b \in Bodies :
       LET bound == ShouldBindJSON(b)
       IN  /\ reqBody' = [reqBody EXCEPT ![p] = b]
           /\ IF bound.err.class # "nil"
                THEN /\ response' = [response EXCEPT ![p] =
                                       HandleError(StatusBadRequest, bound.err)]
                     /\ hpc' = [hpc EXCEPT ![p] = "responded"]
                     /\ UNCHANGED <<pc, data>>
                ELSE /\ data' = [data EXCEPT ![p] = bound.data]
                     /\ pc' = [pc EXCEPT ![p] = "GetPatient"]
                     /\ hpc' = [hpc EXCEPT ![p] = "PayTransaction"]
                     /\ UNCHANGED response
  /\ calls' = calls + 1
  /\ UNCHANGED <<patients, transactions, now, ticks, nextID, patient,
                 transaction, clock, since, isSuccess, createErr, rs, err,
                 reads, writes>>
  /\ UNCHANGED applied

\* Lines 28-35: the evaluator has returned; write the response.
HandlerRespond(p) ==
  /\ hpc[p] = "PayTransaction" /\ pc[p] = "done"
  /\ response' = [response EXCEPT ![p] = PayTransactionResponse(rs[p], err[p])]
  /\ hpc' = [hpc EXCEPT ![p] = "responded"]
  /\ UNCHANGED <<patients, transactions, now, ticks, calls, nextID, pc, data,
                 patient, transaction, clock, since, isSuccess, createErr, rs,
                 err, reads, writes, reqBody>>
  /\ UNCHANGED applied

\* The response is sent; the handler's frame is gone.
HandlerReturn(p) ==
  /\ hpc[p] = "responded"
  /\ hpc' = [hpc EXCEPT ![p] = "idle"]
  /\ reqBody' = [reqBody EXCEPT ![p] = NoBody]
  /\ response' = [response EXCEPT ![p] = NoResponse]
  /\ pc' = [pc EXCEPT ![p] = "idle"]
  /\ data' = [data EXCEPT ![p] = ZeroRequest]
  /\ patient' = [patient EXCEPT ![p] = {}]
  /\ transaction' = [transaction EXCEPT ![p] = ZeroTransaction]
  /\ clock' = [clock EXCEPT ![p] = ZeroTime]
  /\ since' = [since EXCEPT ![p] = 0]
  /\ isSuccess' = [isSuccess EXCEPT ![p] = NoRand]
  /\ createErr' = [createErr EXCEPT ![p] = NoError]
  /\ rs' = [rs EXCEPT ![p] = {}]
  /\ err' = [err EXCEPT ![p] = NoError]
  /\ reads' = [reads EXCEPT ![p] = 0]
  /\ writes' = [writes EXCEPT ![p] = 0]
  /\ UNCHANGED <<patients, transactions, now, ticks, calls, nextID>>
  /\ UNCHANGED applied

NextHTTP ==
  \/ Tick
  \/ \E p \in Procs : HandlerPayTransaction(p)
  \/ \E p \in Procs : GetPatient(p)
  \/ \E p \in Procs : Validate(p)
  \/ \E p \in Procs : ExternalCall(p)
  \/ \E p \in Procs : CreateTransaction(p)
  \/ \E p \in Procs : HandlerRespond(p)
  \/ \E p \in Procs : HandlerReturn(p)

SpecHTTP == Init /\ [][NextHTTP]_vars

(***************************************************************************)
(* The helper functions called on their own, as their unit tests call     *)
(* them: HandleError, getErrorMsg and ValidateDDMMYYYY on drawn arguments. *)
(***************************************************************************)
StatusCodes == {StatusBadRequest, 401, 403, 404, 500}
ErrorMessages == {"something went wrong", "", "test error", ErrPatientNotFound}

FieldEmail == <<"E","m","a","i","l">>
FieldErrors ==
  {FieldError(FieldPatientID, "required"), FieldError(FieldDateOfBirth, "ddmmyyyy"),
   FieldError(FieldRecordType, "required"), FieldError(FieldEmail, "email"),
   [field |-> FieldEmail, tag |-> "min", param |-> "5"]}
FieldErrorLists ==
  {<< >>} \cup {<<a>> : a \in FieldErrors} \cup {<<a, b>> : a, b \in FieldErrors}
ErrorValues ==
  {PlainError(m) : m \in ErrorMessages} \cup {ValidationErrors(l) : l \in FieldErrorLists}

Tags == {"required", "ddmmyyyy", "email", "min", "max", "unknown", "len", ""}
Params == {"", "5", "10"}

DayParts == {<<"0","0">>, <<"0","1">>, <<"1","5">>, <<"2","8">>, <<"2","9">>,
             <<"3","0">>, <<"3","1">>, <<"3","2">>, <<"1">>, <<"a","1">>}
MonthParts == {<<"0","0">>, <<"0","1">>, <<"0","2">>, <<"0","4">>, <<"1","1">>,
               <<"1","2">>, <<"1","3">>, <<"2">>}
YearParts == {<<"1","9","0","0">>, <<"2","0","0","0">>, <<"2","0","2","3">>,
              <<"2","0","2","4">>, <<"2","1","0","0">>, <<"0","0","0","0">>,
              <<"9","0">>}
Separators == {<<"-">>, <<"/">>}
Heads == {<< >>, <<" ">>}
Tails == {<< >>, <<"Z">>, <<"\n">>}
DateStrings ==
  {h \o d \o s1 \o m \o s2 \o y \o t :
     h \in Heads, d \in DayParts, s1 \in Separators, m \in MonthParts,
     s2 \in Separators, y \in YearParts, t \in Tails}

CallHandleError ==
  /\ applied = NotApplied
  /\ \E statusCode \in StatusCodes, e \in ErrorValues :
       applied' = [NotApplied EXCEPT !.fn = "HandleError",
                                     !.statusCode = statusCode, !.e = e,
                                     !.response = HandleError(statusCode, e)]
  /\ UNCHANGED <<patients, transactions, now, ticks, calls, nextID, pc, data,
                 patient, transaction, clock, since, isSuccess, createErr, rs,
                 err, reads, writes, hpc, reqBody, response>>

CallGetErrorMsg ==
  /\ applied = NotApplied
  /\ \E tag \in Tags, param \in Params :
       LET fe == [field |-> FieldEmail, tag |-> tag, param |-> param]
       IN  applied' = [NotApplied EXCEPT !.fn = "getErrorMsg", !.fe = fe,
                                         !.message = getErrorMsg(fe)]
  /\ UNCHANGED <<patients, transactions, now, ticks, calls, nextID, pc, data,
                 patient, transaction, clock, since, isSuccess, createErr, rs,
                 err, reads, writes, hpc, reqBody, response>>

CallValidateDDMMYYYY ==
  /\ applied = NotApplied
  /\ \E dateStr \in DateStrings :
       applied' = [NotApplied EXCEPT !.fn = "ValidateDDMMYYYY", !.dateStr = dateStr,
                                     !.valid = ValidateDDMMYYYY(dateStr)]
  /\ UNCHANGED <<patients, transactions, now, ticks, calls, nextID, pc, data,
                 patient, transaction, clock, since, isSuccess, createErr, rs,
                 err, reads, writes, hpc, reqBody, response>>

\* The helper has returned and its caller has taken the result.
HelperReturn ==
  /\ applied # NotApplied
  /\ applied' = NotApplied
  /\ UNCHANGED <<patients, transactions, now, ticks, calls, nextID, pc, data,
                 patient, transaction, clock, since, isSuccess, createErr, rs,
                 err, reads, writes, hpc, reqBody, response>>

NextHelpers ==
  \/ CallHandleError
  \/ CallGetErrorMsg
  \/ CallValidateDDMMYYYY
  \/ HelperReturn

SpecHelpers == Init /\ [][NextHelpers]_vars

(***************************************************************************)
(* Vocabulary of the properties, stated apart from the code above.        *)
(***************************************************************************)
\* The patient identifier of the request has a row in the patients table.
Resolves(p) == \E row \in patients : row.id = data[p].patient_id

\* s is two digits, a dash, two digits, a dash and four digits, and names
\* an existing calendar date.
WellFormedDate(s) ==
  /\ Len(s) = 10
  /\ \A i \in {1, 2, 4, 5, 7, 8, 9, 10} : s[i] \in Digits
  /\ s[3] = "-" /\ s[6] = "-"
  /\ LET d == DigitVal(s[1]) * 10 + DigitVal(s[2])
         m == DigitVal(s[4]) * 10 + DigitVal(s[5])
         y == DigitVal(s[7]) * 1000 + DigitVal(s[8]) * 100
              + DigitVal(s[9]) * 10 + DigitVal(s[10])
         leap == (y % 4 = 0 /\ y % 100 # 0) \/ y % 400 = 0
         len == CASE m \in {1, 3, 5, 7, 8, 10, 12} -> 31
                  [] m \in {4, 6, 9, 11} -> 30
                  [] m = 2 -> IF leap THEN 29 ELSE 28
                  [] OTHER -> 0
     IN  m \in 1..12 /\ d \in 1..len

BirthDay(s)   == DigitVal(s[1]) * 10 + DigitVal(s[2])
BirthMonth(s) == DigitVal(s[4]) * 10 + DigitVal(s[5])
BirthYear(s)  == DigitVal(s[7]) * 1000 + DigitVal(s[8]) * 100
                 + DigitVal(s[9]) * 10 + DigitVal(s[10])

\* The patient was found and the date of birth is a date.
Admitted(p) == Resolves(p) /\ WellFormedDate(data[p].date_of_birth)

\* The invocation has passed the statements that read the clock.
Evaluated(p) == pc[p] \in {"ExternalCall", "CreateTransaction", "done"}

\* 18 years of 365 days, in hours.
EighteenYearsHours == 18 * 365 * 24

AgeBelow18(p) == since[p] < EighteenYearsHours
AgeAtLeast18(p) == since[p] >= EighteenYearsHours

\* The date of birth is the calendar day 18 years before the day the clock
\* showed, or an earlier day.
BornAtLeast18CalendarYearsAgo(p) ==
  LET s == data[p].date_of_birth
  IN  unixDays(BirthYear(s), BirthMonth(s), BirthDay(s))
        <= unixDays(clock[p].year - 18, clock[p].month, clock[p].day)

BornExactly18CalendarYearsAgo(p) ==
  LET s == data[p].date_of_birth
  IN  unixDays(BirthYear(s), BirthMonth(s), BirthDay(s))
        = unixDays(clock[p].year - 18, clock[p].month, clock[p].day)

\* The invocation returned the record it built, and the record is stored.
ReturnsPersisted(p, status, body) ==
  /\ err[p] = NoError
  /\ rs[p] = {transaction[p]}
  /\ transaction[p] \in transactions
  /\ transaction[p].status = status
  /\ transaction[p].api_response = body

(***************************************************************************)
(* C1: a request whose patient identifier does not resolve returns an     *)
(* error and no Transaction, and never reaches the statements that build  *)
(* or store a Transaction: CreateTransaction is not invoked.              *)
(***************************************************************************)
C1_MissingPatientIsError ==
  \A p \in Procs :
    (pc[p] # "idle" /\ ~Resolves(p)) =>
      /\ pc[p] \in {"GetPatient", "done"}
      /\ writes[p] = 0
      /\ rs[p] = {}
      /\ pc[p] = "done" => err[p] # NoError

C1_Witness ==
  \E p \in Procs :
    /\ pc[p] = "done" /\ ~Resolves(p)
    /\ reads[p] = 1 /\ writes[p] = 0
    /\ rs[p] = {} /\ err[p] = ErrPatientNotFound

(***************************************************************************)
(* C2: for an existing patient, a date of birth that is not a DD-MM-YYYY  *)
(* date (ISO order included) ends the invocation with the error "date of  *)
(* birth format must be DD-MM-YYYY", no Transaction and no store call.    *)
(***************************************************************************)
C2_BadDateIsError ==
  \A p \in Procs :
    (Resolves(p) /\ ~WellFormedDate(data[p].date_of_birth)
       /\ pc[p] \notin {"idle", "GetPatient", "Validate"}) =>
      /\ pc[p] = "done"
      /\ err[p] = ErrDateOfBirthFormat
      /\ rs[p] = {}
      /\ writes[p] = 0

C2_Witness ==
  \E p \in Procs :
    /\ pc[p] = "done" /\ Resolves(p)
    /\ data[p].date_of_birth = DobISO
    /\ err[p] = ErrDateOfBirthFormat /\ rs[p] = {} /\ writes[p] = 0

(***************************************************************************)
(* C3: for an existing patient with a parseable date of birth and a       *)
(* computed age below 18, when the store accepts the write, the           *)
(* invocation stores a failed Transaction with the under-18 payload and   *)
(* returns that record with no error.                                     *)
(***************************************************************************)
C3_Under18Recorded ==
  \A p \in Procs :
    (pc[p] = "done" /\ Admitted(p) /\ AgeBelow18(p) /\ createErr[p] = NoError) =>
      /\ writes[p] = 1
      /\ ReturnsPersisted(p, TransactionStatusFailed, Under18Response)

C3_Witness ==
  \E p \in Procs :
    /\ pc[p] = "done" /\ Admitted(p) /\ AgeBelow18(p)
    /\ data[p].date_of_birth \in {DobTen, DobSeventeen}
    /\ ReturnsPersisted(p, TransactionStatusFailed, Under18Response)

(***************************************************************************)
(* C4: a date of birth exactly 18 calendar years before the current date, *)
(* or earlier, passes the age gate: the Transaction of such a request     *)
(* never carries the under-18 payload.                                    *)
(***************************************************************************)
C4_EighteenPasses ==
  \A p \in Procs :
    (Evaluated(p) /\ Admitted(p) /\ BornAtLeast18CalendarYearsAgo(p)) =>
      /\ AgeAtLeast18(p)
      /\ transaction[p].api_response # Under18Response
      /\ \A t \in transactions :
           t.id = transaction[p].id => t.api_response # Under18Response

C4_Witness ==
  \E p \in Procs :
    /\ pc[p] = "done" /\ Admitted(p)
    /\ BornExactly18CalendarYearsAgo(p)
    /\ rs[p] = {transaction[p]}
    /\ transaction[p] \in transactions
    /\ transaction[p].api_response \in {dummySuccessBody, dummyFailedBody}

(***************************************************************************)
(* C5, as stated: for an existing patient with a parseable date of birth  *)
(* and a record type other than the literal "NEW", the invocation stores  *)
(* and returns a failed Transaction with the payload "Record type must    *)
(* be NEW", whatever the patient's age.  Read here in the claim's favour, *)
(* for the invocations whose store write was accepted.                    *)
(***************************************************************************)
C5_AsStated ==
  \A p \in Procs :
    (pc[p] = "done" /\ Admitted(p) /\ data[p].record_type # "NEW"
       /\ createErr[p] = NoError) =>
      ReturnsPersisted(p, TransactionStatusFailed, RecordTypeResponse)

(***************************************************************************)
(* C5, amended: for an existing patient with a parseable date of birth,   *)
(* a computed age of at least 18 and a record type other than the literal *)
(* "NEW" ("new", "", "OLD", "EXISTING" included), when the store accepts  *)
(* the write, the invocation stores and returns a failed Transaction with *)
(* the payload "Record type must be NEW".                                 *)
(***************************************************************************)
C5_RecordTypeRecorded ==
  \A p \in Procs :
    (pc[p] = "done" /\ Admitted(p) /\ data[p].record_type # "NEW"
       /\ AgeAtLeast18(p) /\ createErr[p] = NoError) =>
      /\ writes[p] = 1
      /\ ReturnsPersisted(p, TransactionStatusFailed, RecordTypeResponse)

C5_Witness ==
  \E p \in Procs :
    /\ pc[p] = "done" /\ Admitted(p) /\ AgeAtLeast18(p)
    /\ data[p].record_type = "new"
    /\ ReturnsPersisted(p, TransactionStatusFailed, RecordTypeResponse)

(***************************************************************************)
(* C6: when both gates pass (computed age at least 18, record type        *)
(* "NEW"), the Transaction handed to the store pairs status and payload   *)
(* by the outcome of the simulated call: 0 gives failed with "Transaction *)
(* failed", 1 gives success with "Transaction success", and nothing else  *)
(* is stored or returned on this path.                                    *)
(***************************************************************************)
C6_OutcomePairing ==
  \A p \in Procs :
    (Admitted(p) /\ AgeAtLeast18(p) /\ data[p].record_type = "NEW"
       /\ (pc[p] = "CreateTransaction" \/ writes[p] > 0)) =>
      /\ isSuccess[p].err = NoError
      /\ isSuccess[p].n \in {0, 1}
      /\ isSuccess[p].n = 0 =>
           /\ transaction[p].status = TransactionStatusFailed
           /\ transaction[p].api_response = dummyFailedBody
      /\ isSuccess[p].n = 1 =>
           /\ transaction[p].status = TransactionStatusSuccess
           /\ transaction[p].api_response = dummySuccessBody
      /\ rs[p] \subseteq {transaction[p]}
      /\ \A t \in transactions : t.id = transaction[p].id => t = transaction[p]

C6_Witness ==
  \E p \in Procs :
    /\ pc[p] = "done" /\ Admitted(p) /\ AgeAtLeast18(p)
    /\ data[p].record_type = "NEW"
    /\ isSuccess[p].n = 1
    /\ ReturnsPersisted(p, TransactionStatusSuccess, dummySuccessBody)

(***************************************************************************)
(* C7: for a request that has passed both gates, both outcomes are        *)
(* possible: from the point of the simulated call there is a step that    *)
(* yields a success Transaction and a step that yields a failed one with  *)
(* "Transaction failed", and from the point of the store call there is a  *)
(* step that persists the Transaction.                                    *)
(***************************************************************************)
CallYields(p, status, body) ==
  /\ ExternalCall(p)
  /\ pc'[p] = "CreateTransaction"
  /\ transaction'[p].status = status
  /\ transaction'[p].api_response = body

Persists(p) ==
  /\ CreateTransaction(p)
  /\ transaction[p] \in transactions'
  /\ rs'[p] = {transaction[p]}

C7_BothOutcomesPossible ==
  \A p \in Procs :
    /\ pc[p] = "ExternalCall" =>
         /\ Admitted(p) /\ AgeAtLeast18(p) /\ data[p].record_type = "NEW"
         /\ ENABLED CallYields(p, TransactionStatusSuccess, dummySuccessBody)
         /\ ENABLED CallYields(p, TransactionStatusFailed, dummyFailedBody)
    /\ pc[p] = "CreateTransaction" => ENABLED Persists(p)

\* The store holds a success record and a "Transaction failed" record of
\* one and the same request.
C7_Witness ==
  \E t1, t2 \in transactions :
    /\ t1.patient_id = t2.patient_id
    /\ t1.date_of_birth = t2.date_of_birth
    /\ t1.record_type = "NEW" /\ t2.record_type = "NEW"
    /\ t1.status = TransactionStatusSuccess /\ t1.api_response = dummySuccessBody
    /\ t2.status = TransactionStatusFailed /\ t2.api_response = dummyFailedBody

(***************************************************************************)
(* C8: when CreateTransaction fails, on any branch, the invocation        *)
(* returns that very error and no Transaction, and the record it built is *)
(* not in the store.                                                      *)
(***************************************************************************)
C8_StoreErrorReturned ==
  \A p \in Procs :
    createErr[p] # NoError =>
      /\ pc[p] = "done"
      /\ err[p] = createErr[p]
      /\ rs[p] = {}
      /\ \A t \in transactions : t.id # transaction[p].id

\* The store refused a success record.
C8_Witness ==
  \E p \in Procs :
    /\ pc[p] = "done" /\ createErr[p] = ErrTransactionNotCreated
    /\ transaction[p].status = TransactionStatusSuccess
    /\ err[p] = ErrTransactionNotCreated /\ rs[p] = {}

(***************************************************************************)
(* C9: an invocation reads Patient Lookup exactly once and calls          *)
(* CreateTransaction at most once; after a failed CreateTransaction the   *)
(* invocation is over, with that one call made.                           *)
(***************************************************************************)
C9_OneReadAtMostOneWrite ==
  \A p \in Procs :
    /\ reads[p] <= 1 /\ writes[p] <= 1
    /\ pc[p] \notin {"idle", "GetPatient"} => reads[p] = 1
    /\ createErr[p] # NoError => (pc[p] = "done" /\ writes[p] = 1)

C9_Witness ==
  \E p \in Procs :
    /\ pc[p] = "done" /\ createErr[p] # NoError
    /\ reads[p] = 1 /\ writes[p] = 1

CarriesRequest(t, req) ==
  /\ t.patient_id = req.patient_id
  /\ t.date_of_birth = req.date_of_birth
  /\ t.record_type = req.record_type

C11_RequestFieldsCopied ==
  \A p \in Procs :
    (pc[p] = "CreateTransaction" \/ writes[p] > 0) =>
      /\ CarriesRequest(transaction[p], data[p])
      /\ \A t \in rs[p] : CarriesRequest(t, data[p])
      /\ \A t \in transactions : t.id = transaction[p].id => CarriesRequest(t, data[p])

C11_Witness ==
  \E p \in Procs :
    /\ pc[p] = "done" /\ writes[p] = 1
    /\ data[p] = Request("p1", DobAdult, "OLD")
    /\ rs[p] = {transaction[p]} /\ transaction[p] \in transactions
    /\ CarriesRequest(transaction[p], data[p])

(***************************************************************************)
(* C12: the status of a Transaction is assigned once, before the          *)
(* persistence call: every Transaction handed to CreateTransaction or     *)
(* stored has status success or failed, never the empty status, and a     *)
(* status once assigned does not change while the invocation lasts.       *)
(***************************************************************************)
StatusSet(t) == t.status \in {TransactionStatusSuccess, TransactionStatusFailed}

StatusSetAtCreate ==
  /\ \A p \in Procs :
       (pc[p] = "CreateTransaction" \/ writes[p] > 0) => StatusSet(transaction[p])
  /\ \A t \in transactions : StatusSet(t)

StatusKept ==
  \A p \in Procs :
    (transaction[p].status # "" /\ pc'[p] # "idle") =>
      transaction'[p].status = transaction[p].status

C12_StatusSetOnceBeforeCreate == []StatusSetAtCreate /\ [][StatusKept]_vars

C12_Witness ==
  \E p \in Procs :
    /\ pc[p] = "done" /\ writes[p] = 1
    /\ transaction[p].status = TransactionStatusSuccess
    /\ transaction[p] \in transactions

(***************************************************************************)
(* C13: the store is append-only: no step removes or changes a stored     *)
(* record, the store changes only by a CreateTransaction call, and each   *)
(* accepted write adds exactly one new record.                            *)
(***************************************************************************)
Wrote(p) == writes'[p] = writes[p] + 1

AppendOnlyStep ==
  /\ transactions \subseteq transactions'
  /\ \A p \in Procs :
       (Wrote(p) /\ createErr'[p] = NoError) =>
         /\ transaction[p] \notin transactions
         /\ transactions' = transactions \cup {transaction[p]}
         /\ Cardinality(transactions') = Cardinality(transactions) + 1
  /\ transactions' # transactions =>
       \E p \in Procs : Wrote(p) /\ createErr'[p] = NoError

C13_AppendOnly == [][AppendOnlyStep]_vars

\* Two records of one patient, written by two requests, are both stored.
C13_Witness ==
  \E t1, t2 \in transactions :
    /\ t1.id # t2.id
    /\ t1.patient_id = t2.patient_id
    /\ Cardinality(transactions) = 2

(***************************************************************************)
(* C19: the gates run in the order patient lookup, date parse, age gate,  *)
(* record-type gate, simulated call, and the first failing gate decides:  *)
(* a missing patient gives the lookup error even with an unparseable      *)
(* date, an unparseable date gives the date error whatever the record     *)
(* type, an under-18 request is recorded with the under-18 payload even   *)
(* with a record type other than "NEW", and the simulated call is made    *)
(* only when the patient is 18 or older and the record type is "NEW".     *)
(***************************************************************************)
SimulatedCallMade(p) ==
  \/ pc[p] = "ExternalCall"
  \/ transaction[p].api_response \in {dummyFailedBody, dummySuccessBody}
  \/ err[p] = ErrRandReader

C19_GateOrder ==
  \A p \in Procs :
    /\ (pc[p] = "done" /\ ~Resolves(p)) =>
         (err[p] = ErrPatientNotFound /\ rs[p] = {} /\ writes[p] = 0)
    /\ (pc[p] = "done" /\ Resolves(p) /\ ~WellFormedDate(data[p].date_of_birth)) =>
         (err[p] = ErrDateOfBirthFormat /\ rs[p] = {} /\ writes[p] = 0)
    /\ (Evaluated(p) /\ Admitted(p) /\ AgeBelow18(p)) =>
         (transaction[p].api_response = Under18Response /\ ~SimulatedCallMade(p))
    /\ (Evaluated(p) /\ Admitted(p) /\ AgeAtLeast18(p) /\ data[p].record_type # "NEW") =>
         (transaction[p].api_response = RecordTypeResponse /\ ~SimulatedCallMade(p))
    /\ SimulatedCallMade(p) =>
         (Admitted(p) /\ AgeAtLeast18(p) /\ data[p].record_type = "NEW")

\* An under-18 request with another record type is stored with the under-18
\* payload, and a later request with a missing patient and an unparseable
\* date has returned the lookup error.
C19_Witness ==
  /\ \E t \in transactions :
       t.record_type # "NEW" /\ t.api_response = Under18Response
  /\ \E p \in Procs :
       /\ pc[p] = "done"
       /\ ~Resolves(p)
       /\ ~WellFormedDate(data[p].date_of_birth)
       /\ err[p] = ErrPatientNotFound

(***************************************************************************)
(* C20: the age gate passes exactly when at least 18 * 365 = 6570 days    *)
(* have elapsed between midnight of the birth date and the clock reading  *)
(* (leap days are not accounted for), so a patient whose 18th calendar    *)
(* birthday is still in the future can pass the gate.                     *)
(***************************************************************************)
ElapsedHours(p) ==
  LET s == data[p].date_of_birth
  IN  (unixDays(clock[p].year, clock[p].month, clock[p].day)
         - unixDays(BirthYear(s), BirthMonth(s), BirthDay(s))) * 24
      + clock[p].hour

AgeGatePassed(p) == transaction[p].api_response # Under18Response

C20_GateAt6570Days ==
  \A p \in Procs :
    (Evaluated(p) /\ Admitted(p)) =>
      (AgeGatePassed(p) <=> ElapsedHours(p) >= 6570 * 24)

\* A patient whose 18th birthday is still to come passes the age gate and
\* the simulated call runs.
C20_Witness ==
  \E p \in Procs :
    /\ pc[p] = "done"
    /\ Admitted(p)
    /\ ~BornAtLeast18CalendarYearsAgo(p)
    /\ ElapsedHours(p) >= 6570 * 24
    /\ data[p].record_type = "NEW"
    /\ ReturnsPersisted(p, TransactionStatusSuccess, dummySuccessBody)

(***************************************************************************)
(* C14: two PayTransaction requests for the same patient that overlap do  *)
(* not block or reject each other: an invocation that stands before a     *)
(* repository call, the simulated call or its return can take that step   *)
(* whatever the other is doing, and when both have passed the lookup and  *)
(* the date parse and the store accepted both writes, the store holds two *)
(* records with distinct identifiers, one per request.                    *)
(***************************************************************************)
\* The validation step reads only the request, the clock and the identifier
\* supply; the steps below are the ones that meet the other invocation.
StepEnabled(p) ==
  /\ pc[p] = "GetPatient" => ENABLED GetPatient(p)
  /\ pc[p] = "ExternalCall" => ENABLED ExternalCall(p)
  /\ pc[p] = "CreateTransaction" => ENABLED CreateTransaction(p)
  /\ pc[p] = "done" => ENABLED Return(p)

WriteAccepted(p) ==
  pc[p] = "done" /\ Admitted(p) /\ writes[p] = 1 /\ createErr[p] = NoError

C14_ConcurrentSamePatient ==
  /\ \A p \in Procs : StepEnabled(p)
  /\ \A p, q \in Procs :
       (/\ p # q
        /\ data[p].patient_id = data[q].patient_id
        /\ WriteAccepted(p) /\ WriteAccepted(q)) =>
         /\ transaction[p].id # transaction[q].id
         /\ {transaction[p], transaction[q]} \subseteq transactions
         /\ rs[p] = {transaction[p]} /\ rs[q] = {transaction[q]}
         /\ CarriesRequest(transaction[p], data[p])
         /\ CarriesRequest(transaction[q], data[q])
         /\ Cardinality({t \in transactions :
                           t.id \in {transaction[p].id, transaction[q].id}}) = 2

\* Both invocations were between lookup and store at the same time, and
\* both are stored.
C14_Witness ==
  /\ WriteAccepted(1) /\ WriteAccepted(2)
  /\ data[1].patient_id = "p1" /\ data[2].patient_id = "p1"
  /\ clock[1] = clock[2]
  /\ transaction[1].id # transaction[2].id
  /\ {transaction[1], transaction[2]} \subseteq transactions

(***************************************************************************)
(* Vocabulary of the properties about the HTTP boundary.                   *)
(***************************************************************************)
\* t is 8-4-4-4-12 hexadecimal digits separated by dashes.
WellFormedUUIDText(t) ==
  /\ Len(t) = 36
  /\ \A i \in 1..36 :
       IF i \in {9, 14, 19, 24} THEN t[i] = "-"
       ELSE t[i] \in {"0","1","2","3","4","5","6","7","8","9",
                      "a","b","c","d","e","f","A","B","C","D","E","F"}

AllZeroUUIDText(t) == \A i \in 1..Len(t) : t[i] \in {"0", "-"}

IsJSON(b) == b.kind = "json"
MalformedID(b) == IsJSON(b) /\ \E t \in b.patient_id : ~WellFormedUUIDText(t)
AbsentMember(b) ==
  IsJSON(b) /\ (b.patient_id = {} \/ b.date_of_birth = {} \/ b.record_type = {})

NoPatientID(b) == b.patient_id = {} \/ \E t \in b.patient_id : AllZeroUUIDText(t)
NoDateOfBirth(b) == b.date_of_birth = {} \/ << >> \in b.date_of_birth
NoRecordType(b) == b.record_type = {} \/ "" \in b.record_type
BadDate(b) == \E d \in b.date_of_birth : d # << >> /\ ~WellFormedDate(d)

\* The body decodes and every member passes its binding rules.
ValidBody(b) ==
  /\ IsJSON(b) /\ ~MalformedID(b)
  /\ ~NoPatientID(b) /\ ~NoDateOfBirth(b) /\ ~NoRecordType(b) /\ ~BadDate(b)

Received(p) == hpc[p] # "idle"
Responded(p) == hpc[p] = "responded"
EvaluatorReturned(p) == Responded(p) /\ pc[p] = "done"

(***************************************************************************)
(* C15: a body that fails decoding or field validation (invalid JSON,     *)
(* empty body, missing patient_id / date_of_birth / record_type,          *)
(* malformed patient identifier, date not in DD-MM-YYYY) is answered with *)
(* HTTP 400 and PayTransaction of the evaluator is never invoked for it.  *)
(***************************************************************************)
C15_BadBodyIs400 ==
  \A p \in Procs :
    (Received(p) /\ ~ValidBody(reqBody[p])) =>
      /\ Responded(p)
      /\ response[p].code = 400
      /\ response[p].transaction = {}
      /\ pc[p] = "idle" /\ data[p] = ZeroRequest
      /\ reads[p] = 0 /\ writes[p] = 0

C15_Witness ==
  \E p \in Procs :
    /\ Responded(p)
    /\ reqBody[p] = JSONBody({TextP1}, {DobISO}, {"NEW"})
    /\ response[p].code = 400
    /\ pc[p] = "idle"

Entry(name, message) == [field |-> name, message |-> message]

ExpectedEntries(b) ==
  (IF NoPatientID(b)
     THEN <<Entry(<<"p","a","t","i","e","n","t","_","i","_","d">>,
                  "This field is required")>>
     ELSE << >>)
  \o (IF NoDateOfBirth(b)
        THEN <<Entry(<<"d","a","t","e","_","o","f","_","b","i","r","t","h">>,
                     "This field is required")>>
      ELSE IF BadDate(b)
        THEN <<Entry(<<"d","a","t","e","_","o","f","_","b","i","r","t","h">>,
                     "Date must be in DD-MM-YYYY format")>>
      ELSE << >>)
  \o (IF NoRecordType(b)
        THEN <<Entry(<<"r","e","c","o","r","d","_","t","y","p","e">>,
                     "This field is required")>>
      ELSE << >>)

ErrorBody(message) ==
  [code |-> 400, error |-> {message}, errors |-> {}, transaction |-> {}]

C17_EvaluatorErrorIs400 ==
  /\ \A p \in Procs :
       (EvaluatorReturned(p) /\ err[p] # NoError) => response[p] = ErrorBody(err[p])
  /\ \A message \in {"patient not found",
                      "date of birth format must be DD-MM-YYYY",
                      "transaction not created"} :
       PayTransactionResponse({}, message) = ErrorBody(message)

\* A storage failure reported to the client.
C17_Witness ==
  \E p \in Procs :
    /\ EvaluatorReturned(p)
    /\ err[p] = "transaction not created"
    /\ response[p].code = 400
    /\ response[p].error = {"transaction not created"}

(***************************************************************************)
(* C18: whenever the evaluator returns a Transaction the response has     *)
(* status 200 and that Transaction as its body, also when the             *)
(* Transaction's status is failed.                                        *)
(***************************************************************************)
C18_TransactionIs200 ==
  \A p \in Procs :
    (EvaluatorReturned(p) /\ rs[p] # {}) =>
      /\ response[p] = [code |-> 200, error |-> {}, errors |-> {},
                        transaction |-> {transaction[p]}]
      /\ rs[p] = {transaction[p]}

\* An under-18 request answered with 200 and the failed Transaction.
C18_Witness ==
  \E p \in Procs :
    /\ EvaluatorReturned(p)
    /\ response[p].code = 200
    /\ \E t \in response[p].transaction :
         /\ t.status = "failed"
         /\ t.api_response = Under18Response
         /\ t \in transactions

(***************************************************************************)
(* C21: HandleError answers with exactly the status code it is given; for *)
(* a ValidationErrors value the body has the key "errors", a list with    *)
(* one field/message entry per field error, and no key "error"; for every *)
(* other error the body has the key "error" with the error's message and  *)
(* no key "errors".                                                       *)
(***************************************************************************)
HandleErrorCalled == applied.fn = "HandleError"

C21_HandleErrorShapes ==
  HandleErrorCalled =>
    /\ applied.response.code = applied.statusCode
    /\ applied.response.transaction = {}
    /\ applied.e.class = "ValidationErrors" =>
         /\ applied.response.error = {}
         /\ \E l \in applied.response.errors :
              /\ applied.response.errors = {l}
              /\ Len(l) = Len(applied.e.fields)
              /\ \A i \in 1..Len(l) : DOMAIN l[i] = {"field", "message"}
    /\ applied.e.class # "ValidationErrors" =>
         /\ applied.response.errors = {}
         /\ applied.response.error = {applied.e.msg}

\* A list of two field errors given with status 404.
C21_Witness ==
  /\ HandleErrorCalled
  /\ applied.statusCode = 404
  /\ applied.e.class = "ValidationErrors" /\ Len(applied.e.fields) = 2
  /\ \E l \in applied.response.errors : Len(l) = 2

(***************************************************************************)
(* C22 as stated: getErrorMsg gives "This field is required" for the tag  *)
(* "required", "Date must be in DD-MM-YYYY format" for "ddmmyyyy", and    *)
(* for every other tag, "email", "min" and "max" included, the generic    *)
(* "Validation failed on <tag>".                                          *)
(***************************************************************************)
GetErrorMsgCalled == applied.fn = "getErrorMsg"

C22_AsStated ==
  GetErrorMsgCalled =>
    applied.message =
      (IF applied.fe.tag = "required" THEN "This field is required"
       ELSE IF applied.fe.tag = "ddmmyyyy" THEN "Date must be in DD-MM-YYYY format"
       ELSE "Validation failed on " \o applied.fe.tag)

(***************************************************************************)
(* C23: ValidateDDMMYYYY accepts a string if and only if it is two ASCII  *)
(* digits, a dash, two ASCII digits, a dash and four ASCII digits with    *)
(* nothing before or after, and day, month and year name an existing      *)
(* calendar date (month 01..12, day 01..length of the month, 29-02 only   *)
(* in leap years).                                                        *)
(***************************************************************************)
ValidateCalled == applied.fn = "ValidateDDMMYYYY"

C23_ValidatorAcceptsExactlyDates ==
  ValidateCalled => (applied.valid <=> WellFormedDate(applied.dateStr))

\* 29 February of a leap year divisible by 400 is accepted.
C23_Witness ==
  /\ ValidateCalled
  /\ applied.dateStr = <<"2","9","-","0","2","-","2","0","0","0">>
  /\ applied.valid

(***************************************************************************)
(* C24: GetPatient of the repository returns the stored patient, with the *)
(* same id and fields, and no error when a row with the given id exists,  *)
(* and no patient with the error "patient not found" when the query       *)
(* yields no row.                                                         *)
(***************************************************************************)
LookedUp(p) == reads[p] > 0

C24_GetPatientResult ==
  \A p \in Procs :
    LookedUp(p) =>
      IF \E row \in patients : row.id = data[p].patient_id
        THEN /\ \E row \in patients :
                  row.id = data[p].patient_id /\ patient[p] = {row}
             /\ err[p] # "patient not found"
             /\ pc[p] # "GetPatient"
        ELSE /\ patient[p] = {}
             /\ err[p] = "patient not found"
             /\ pc[p] = "done"

\* The lookup of a stored patient has returned the row and the invocation
\* goes on.
C24_Witness ==
  \E p \in Procs :
    /\ LookedUp(p) /\ pc[p] = "Validate"
    /\ patient[p] = {[id |-> "p1", name |-> "John Doe"]}
    /\ err[p] = NoError

(***************************************************************************)
(* C25: CreateTransaction of the repository round-trips: when the insert  *)
(* affects a row it returns a record equal to its input and the record is *)
(* afterwards found in the store under its id; when no row is affected it *)
(* returns no record and the error "transaction not created".             *)
(***************************************************************************)
StoredUnder(id) == {t \in transactions : t.id = id}

C25_CreateRoundTrips ==
  \A p \in Procs :
    writes[p] > 0 =>
      IF createErr[p] = NoError
        THEN /\ rs[p] = {transaction[p]}
             /\ StoredUnder(transaction[p].id) = {transaction[p]}
        ELSE /\ rs[p] = {}
             /\ createErr[p] = "transaction not created"
             /\ err[p] = "transaction not created"
             /\ StoredUnder(transaction[p].id) = {}

\* A success record was written and is found under its id.
C25_Witness ==
  \E p \in Procs :
    /\ writes[p] = 1 /\ createErr[p] = NoError
    /\ transaction[p].status = "success"
    /\ rs[p] = StoredUnder(transaction[p].id)
    /\ rs[p] # {}

(***************************************************************************)
(* C26: the date validator of the boundary and the date parser of the     *)
(* evaluator agree: a date of birth that ValidateDDMMYYYY accepts is      *)
(* parsed by PayTransaction, so for a request that came through the HTTP  *)
(* boundary the error "date of birth format must be DD-MM-YYYY" does not  *)
(* occur.                                                                 *)
(***************************************************************************)
C26_ValidatedDateParses ==
  \A p \in Procs :
    /\ err[p] # "date of birth format must be DD-MM-YYYY"
    /\ \A m \in response[p].error : m # "date of birth format must be DD-MM-YYYY"
    /\ pc[p] # "idle" => WellFormedDate(data[p].date_of_birth)
    /\ (pc[p] = "done" /\ patient[p] # {}) => clock[p] # ZeroTime

\* A request with a date in the future went through the boundary and the
\* evaluator parsed its date and read the clock.
C26_Witness ==
  \E p \in Procs :
    /\ hpc[p] = "responded" /\ pc[p] = "done"
    /\ data[p].date_of_birth = DobFuture
    /\ clock[p] # ZeroTime
    /\ err[p] = NoError

(***************************************************************************)
(* C27: a date of birth in the future passes the boundary validator,      *)
(* gives a negative computed age and is handled by the age gate like any  *)
(* under-18 request: a failed Transaction with the under-18 payload is    *)
(* persisted and returned; the request is not rejected as invalid input   *)
(* and does not reach the simulated call.                                 *)
(***************************************************************************)
\* The calendar day d lies after the day the clock t shows.
AfterDay(d, t) ==
  unixDays(BirthYear(d), BirthMonth(d), BirthDay(d)) > unixDays(t.year, t.month, t.day)

FutureBirthBody(b) ==
  ValidBody(b) /\ \E d \in b.date_of_birth : AfterDay(d, now)

C27_FutureBirthIsUnder18 ==
  \A p \in Procs :
    /\ (Received(p) /\ FutureBirthBody(reqBody[p])) =>
         /\ pc[p] # "idle"
         /\ data[p].date_of_birth \in reqBody[p].date_of_birth
         /\ response[p].errors = {}
         /\ err[p] # "date of birth format must be DD-MM-YYYY"
    /\ (Evaluated(p) /\ Admitted(p) /\ AfterDay(data[p].date_of_birth, clock[p])) =>
         /\ since[p] < 0
         /\ transaction[p].status = "failed"
         /\ transaction[p].api_response = Under18Response
         /\ ~SimulatedCallMade(p)
         /\ (pc[p] = "done" /\ createErr[p] = NoError) =>
              ReturnsPersisted(p, "failed", Under18Response)
         /\ (Responded(p) /\ createErr[p] = NoError) =>
              (response[p].code = 200 /\ response[p].transaction = {transaction[p]})

\* The request for a patient born in 2030 is answered with the stored
\* under-18 record.
C27_Witness ==
  \E p \in Procs :
    /\ Responded(p)
    /\ FutureBirthBody(reqBody[p])
    /\ since[p] < 0
    /\ response[p].code = 200
    /\ \E t \in response[p].transaction :
         t.api_response = Under18Response /\ t \in transactions

(***************************************************************************)
(* C28: every Transaction in the store with status success was written by *)
(* a request for which the patient existed, the date of birth parsed, the *)
(* computed age was at least 18, the record type was exactly "NEW" and    *)
(* the simulated call returned outcome 1; no other path stores a success  *)
(* record.                                                                *)
(***************************************************************************)
FullPath(p) ==
  /\ Admitted(p)
  /\ AgeAtLeast18(p)
  /\ data[p].record_type = "NEW"
  /\ isSuccess[p] = [n |-> 1, err |-> NoError]

SuccessStoredByFullPath ==
  \A t \in transactions' \ transactions :
    t.status = "success" =>
      \E p \in Procs : Wrote(p) /\ t = transaction[p] /\ FullPath(p)

\* What a stored success record still shows of its request.
StoredSuccessRecords ==
  \A t \in transactions :
    t.status = "success" =>
      /\ \E row \in patients : row.id = t.patient_id
      /\ WellFormedDate(t.date_of_birth)
      /\ t.record_type = "NEW"
      /\ t.api_response = dummySuccessBody
      /\ unixDays(now.year, now.month, now.day)
           - unixDays(BirthYear(t.date_of_birth), BirthMonth(t.date_of_birth),
                      BirthDay(t.date_of_birth)) >= 6570

C28_SuccessOnlyByFullPath == []StoredSuccessRecords /\ [][SuccessStoredByFullPath]_vars

\* A success record stays in the store after its invocation has returned,
\* next to a failed one.
C28_Witness ==
  /\ \A p \in Procs : pc[p] = "idle"
  /\ \E t \in transactions : t.status = "success"
  /\ \E t \in transactions : t.status = "failed"

(***************************************************************************)
(* C29: every invocation of PayTransaction terminates, with exactly one   *)
(* of two outcomes: a Transaction and a nil error, or no Transaction and  *)
(* a non-nil error; never both, never neither; and it returns a           *)
(* Transaction only if this invocation persisted that Transaction.        *)
(***************************************************************************)
Terminated(p) == pc[p] = "done"

OneOutcome ==
  \A p \in Procs :
    /\ Terminated(p) =>
         \/ (rs[p] # {} /\ err[p] = NoError)
         \/ (rs[p] = {} /\ err[p] # NoError)
    /\ Terminated(p) => Cardinality(rs[p]) <= 1
    /\ rs[p] # {} =>
         /\ Terminated(p)
         /\ writes[p] = 1 /\ createErr[p] = NoError
         /\ rs[p] = {transaction[p]}
         /\ transaction[p] \in transactions

C29_TerminatesWithOneOutcome ==
  /\ []OneOutcome
  /\ \A p \in Procs : (pc[p] = "GetPatient") ~> Terminated(p)

\* A refused write: the invocation has ended with the store's error and no
\* Transaction.
C29_Witness ==
  \E p \in Procs :
    /\ Terminated(p)
    /\ writes[p] = 1 /\ createErr[p] # NoError
    /\ rs[p] = {} /\ err[p] = "transaction not created"

(***************************************************************************)
(* C30.                                                                    *)
(***************************************************************************)
\* The reading of the clock of an invocation, in hours from the epoch.
ClockHours(p) == unixHours(clock[p].year, clock[p].month, clock[p].day, clock[p].hour)

\* The invocation read the clock and its date of birth reached the age gate.
Gated(p) == Evaluated(p) /\ Admitted(p)

SameBirth(p, q) == data[p].date_of_birth = data[q].date_of_birth

\* C30: the age gate is monotonic in the current time and a function of the
\* date of birth and the current time only.  Of two invocations with the
\* same date of birth, the one that read the clock later passes whenever the
\* earlier one passed, and two that read the same time have the same
\* verdict, whatever their record types and whatever the store holds; an
\* invocation fails the gate exactly while fewer than 6570 days separate
\* the date of birth from its reading of the clock.
C30_AgeGateMonotonic ==
  /\ \A p, q \in Procs :
       (Gated(p) /\ Gated(q) /\ SameBirth(p, q)) =>
         /\ (ClockHours(p) <= ClockHours(q) /\ AgeGatePassed(p)) => AgeGatePassed(q)
         /\ ClockHours(p) = ClockHours(q) => (AgeGatePassed(p) <=> AgeGatePassed(q))
  /\ \A p \in Procs :
       Gated(p) => (~AgeGatePassed(p) <=> ElapsedHours(p) < 6570 * 24)

\* The same date of birth failed the gate at one time and passed it later,
\* under a different record type and with the earlier record in the store.
C30_Witness ==
  \E p, q \in Procs :
    /\ Gated(p) /\ Gated(q) /\ SameBirth(p, q)
    /\ ClockHours(p) < ClockHours(q)
    /\ ~AgeGatePassed(p) /\ AgeGatePassed(q)
    /\ data[p].record_type # data[q].record_type
    /\ transaction[p] \in transactions

====
